---- MODULE Spec2Model ----
(***************************************************************************)
(* A model of the two scripts of the repository:                           *)
(*   script/Crawler_code_guardian.py  (GuardianCrawler)                    *)
(*   script/posting_1.py              (TwitterBot)                         *)
(* Texts are sequences of tokens, Python dicts are functions whose DOMAIN  *)
(* is the set of keys present, and a call that may raise yields an outcome *)
(* record [exc, val]: exc says whether the call raised to its caller.      *)
(***************************************************************************)
EXTENDS Integers, Sequences, FiniteSets, TLC

\* ------------------------------------------------------------------ bounds
\* longest model response, in tokens
MaxRespLen == 4
\* categories of url_patterns that are crawled, and seeds of each
MaxCats == 2
CrawlSeeds == 1
\* seeds of a call of discover_article_urls on its own, and its largest cap
MaxSeeds == 2
MaxCap == 2
\* entries of the tweet file
MaxTweets == 2
\* enriched articles of an aggregation run
MaxAggArticles == 3
\* tasks submitted to a worker pool run on its own
MaxPoolTasks == 2

\* ---------------------------------------------------------- Python values
\* A JSON value: a string, null, a list of strings or a nested object.
Str(s) == [t |-> "str", s |-> s, l |-> <<>>]
Null == [t |-> "null", s |-> "", l |-> <<>>]
List(l) == [t |-> "list", s |-> "", l |-> l]
Obj == [t |-> "dict", s |-> "", l |-> <<>>]

\* d.get(k, default)
Get(d, k, default) == IF k \in DOMAIN d THEN d[k] ELSE default

\* d[k] = v
Put(d, k, v) == [x \in DOMAIN d \cup {k} |-> IF x = k THEN v ELSE d[x]]

\* Python truthiness of a value: None, "" and [] are falsy
Truthy(v) ==
  CASE v.t = "str" -> v.s # ""
    [] v.t = "list" -> v.l # <<>>
    [] v.t = "null" -> FALSE
    [] OTHER -> TRUE

EmptyDict == [x \in {} |-> Null]

\* an outcome of a call: it returned val, or it raised
Ret(v) == [exc |-> FALSE, val |-> v]
Raise == [exc |-> TRUE, val |-> EmptyDict]

\* ------------------------------------------------- the model's reply text
\* The tokens a reply of the model service is made of: braces, a key that
\* opens a nested object ("k:{", which ends in the character '{'), prose
\* that is no JSON ("x"), whitespace, and key/value pairs.
PairTokens == {"s:positive", "s:mixed", "u:critical", "t:list", "t:null"}
Tokens == {"{", "}", "k:{", "x", " "} \cup PairTokens

PairKey(tok) ==
  CASE tok \in {"s:positive", "s:mixed"} -> "sentiment"
    [] tok = "u:critical" -> "urgency"
    [] OTHER -> "key_topics"

PairVal(tok) ==
  CASE tok = "s:positive" -> Str("positive")
    [] tok = "s:mixed" -> Str("mixed")
    [] tok = "u:critical" -> Str("critical")
    [] tok = "t:list" -> List(<<"t1", "t2">>)
    [] OTHER -> Null

\* str.strip(): leading and trailing whitespace removed
RECURSIVE LStrip(_)
LStrip(s) == IF s # <<>> /\ Head(s) = " " THEN LStrip(Tail(s)) ELSE s
RECURSIVE RStrip(_)
RStrip(s) ==
  IF s # <<>> /\ s[Len(s)] = " " THEN RStrip(SubSeq(s, 1, Len(s) - 1)) ELSE s
Strip(s) == RStrip(LStrip(s))

\* json.loads(text): the text must be one object, "{" members "}", with
\* nothing but whitespace around it; a member is a pair or a key with a
\* nested object. A later pair of the same key replaces an earlier one.
\* Scan(text, i, depth, d): the scan from token i with the top-level members
\* d read so far; depth is -1 before the object opens, the number of open
\* braces inside it, and 0 once it has closed.
RECURSIVE Scan(_, _, _, _)
Scan(text, i, depth, d) ==
  IF i > Len(text) THEN (IF depth = 0 THEN Ret(d) ELSE Raise)
  ELSE LET tok == text[i] IN
    CASE tok = " " -> Scan(text, i + 1, depth, d)
      [] tok = "{" -> IF depth = -1 THEN Scan(text, i + 1, 1, d) ELSE Raise
      [] tok = "}" -> IF depth >= 1 THEN Scan(text, i + 1, depth - 1, d) ELSE Raise
      [] tok = "k:{" ->
           IF depth >= 1
           THEN Scan(text, i + 1, depth + 1,
                     IF depth = 1 THEN Put(d, "extra", Obj) ELSE d)
           ELSE Raise
      [] tok \in PairTokens ->
           IF depth >= 1
           THEN Scan(text, i + 1, depth,
                     IF depth = 1 THEN Put(d, PairKey(tok), PairVal(tok)) ELSE d)
           ELSE Raise
      [] OTHER -> Raise

json_loads(text) == Scan(text, 1, -1, EmptyDict)

\* re.search(r'\{[^}]*\}', text): the leftmost '{' that has a '}' after it,
\* up to the first '}' that follows. A match that starts inside a "k:{"
\* token starts at its brace.
HasBrace(tok) == tok \in {"{", "k:{"}
Min(S) == CHOOSE x \in S : \A y \in S : x <= y
re_search(text) ==
  LET opens == {i \in 1..Len(text) : HasBrace(text[i])
                  /\ \E j \in (i + 1)..Len(text) : text[j] = "}"}
  IN IF opens = {} THEN [found |-> FALSE, group |-> <<>>]
     ELSE LET i == Min(opens)
              j == Min({k \in (i + 1)..Len(text) : text[k] = "}"})
          IN [found |-> TRUE,
              group |-> <<"{">> \o SubSeq(text, i + 1, j - 1) \o <<"}">>]

\* ------------------------------------------------ analyze_with_ollama_fast
DefaultAnalysis ==
  [k \in {"headline", "summary", "key_topics", "sentiment", "urgency"} |->
     CASE k = "headline" -> Str("Analysis failed")
       [] k = "summary" -> Str("Could not analyze content")
       [] k = "key_topics" -> List(<<>>)
       [] k = "sentiment" -> Str("neutral")
       [] OTHER -> Str("medium")]

\* what the chat call did: it raised, or it returned a reply text
ChatRaised == [exc |-> TRUE, text |-> <<>>]
ChatReply(text) == [exc |-> FALSE, text |-> text]

startswith_brace(text) == text # <<>> /\ Head(text) = "{"

\* The two parse attempts on the stripped reply: the object returned by the
\* first attempt that succeeds, or a raise when both are passed over.
ParseReply(response_text) ==
  LET direct == json_loads(response_text)
      json_match == re_search(response_text)
      embedded == json_loads(json_match.group)
  IN IF startswith_brace(response_text) /\ ~direct.exc THEN direct
     ELSE IF json_match.found /\ ~embedded.exc THEN embedded
     ELSE Raise

\* the function without its outer try/except: a raising chat call escapes
analyze_unguarded(chat) ==
  IF chat.exc THEN Raise
  ELSE LET parsed == ParseReply(Strip(chat.text))
       IN IF parsed.exc THEN Ret(DefaultAnalysis) ELSE parsed

\* the whole function: a raise of the chat call, or of both parse attempts,
\* ends in the fixed default object
analyze_with_ollama_fast(chat) ==
  IF chat.exc THEN Ret(DefaultAnalysis)
  ELSE LET parsed == ParseReply(Strip(chat.text))
       IN IF parsed.exc THEN Ret(DefaultAnalysis) ELSE parsed

\* ------------------------------------------------------------------ URLs
\* A URL is its host, its path segments and the marks it carries: the
\* substrings of the exclusion list that are no path segment (".json", "#").
\* A pattern '/seg/' occurs in a URL when seg is a segment that another
\* segment follows.
Url(host, path, marks) == [host |-> host, path |-> path, marks |-> marks]

HasSeg(url, seg) == \E i \in 1..(Len(url.path) - 1) : url.path[i] = seg

HasSegs2(url, a, b) ==
  \E i \in 1..(Len(url.path) - 2) : url.path[i] = a /\ url.path[i + 1] = b

ExcludeSegs ==
  {"live", "gallery", "video", "audio", "newsletters", "membership", "help",
   "info", "privacy", "terms", "contact", "jobs", "crosswords", "games",
   "weather", "guardian-live-events"}

ExcludeMarks == {".json", ".xml", ".css", ".js", ".png", ".jpg", "#", "mailto:", "tel:"}

ValidSegs ==
  {"2024", "2025", "world", "uk-news", "politics", "business", "environment",
   "science", "culture", "sport", "technology", "society", "education"}

is_valid_article_url(url) ==
  /\ url.host = "www.theguardian.com"
  /\ ~\E seg \in ExcludeSegs : HasSeg(url, seg)
  /\ ~HasSegs2(url, "travel", "offers")
  /\ url.marks \cap ExcludeMarks = {}
  /\ \E seg \in ValidSegs : HasSeg(url, seg)

categorize_url(url) ==
  CASE HasSeg(url, "world") -> "world"
    [] HasSeg(url, "uk-news") -> "uk"
    [] HasSeg(url, "politics") -> "politics"
    [] HasSeg(url, "business") -> "business"
    [] HasSeg(url, "environment") -> "environment"
    [] HasSeg(url, "science") -> "science"
    [] HasSeg(url, "technology") -> "technology"
    [] HasSeg(url, "culture") \/ HasSeg(url, "film") \/ HasSeg(url, "books") -> "culture"
    [] HasSeg(url, "sport") \/ HasSeg(url, "football") -> "sport"
    [] HasSeg(url, "society") -> "society"
    [] HasSeg(url, "education") -> "education"
    [] OTHER -> "general"

\* the links the listing pages of the model carry
U1 == Url("www.theguardian.com", <<"world", "2025", "a">>, {})
U2 == Url("www.theguardian.com", <<"politics", "2025", "b">>, {})
U3 == Url("www.theguardian.com", <<"world", "live", "c">>, {})
U4 == Url("example.com", <<"world", "2025", "d">>, {})
Urls == {U1, U2, U3, U4}

\* ------------------------------------------------- extract_single_article
MinParagraphLen == 20
MinParagraphs == 5
MinContentLen == 100
MaxContentLen == 3000
NumTitleSelectors == 6
NumContentSelectors == 7

\* A paragraph element: the identity of its stripped text, the text's length
\* and number of words, and whether it is flagged: it starts with 'Guardian'
\* or holds 'advertisement', 'subscribe' or 'premium'.
Para(id, len, words, flagged) ==
  [id |-> id, len |-> len, words |-> words, flagged |-> flagged]

\* the loop over the elements of one selector: content_parts after it
RECURSIVE AddElements(_, _)
AddElements(content_parts, elements) ==
  IF elements = <<>> THEN content_parts
  ELSE LET elem == Head(elements)
           keep == /\ elem.len > MinParagraphLen
                   /\ ~\E i \in 1..Len(content_parts) : content_parts[i].id = elem.id
                   /\ ~elem.flagged
       IN AddElements(IF keep THEN Append(content_parts, elem) ELSE content_parts,
                      Tail(elements))

\* the loop over the content selectors from selector k on
RECURSIVE AddSelectors(_, _, _)
AddSelectors(content_parts, paras, k) ==
  IF k > Len(paras) THEN content_parts
  ELSE LET parts == AddElements(content_parts, paras[k])
       IN IF Len(parts) >= MinParagraphs THEN parts
          ELSE AddSelectors(parts, paras, k + 1)

RECURSIVE SumLen(_)
SumLen(parts) == IF parts = <<>> THEN 0 ELSE Head(parts).len + SumLen(Tail(parts))
RECURSIVE SumWords(_)
SumWords(parts) == IF parts = <<>> THEN 0 ELSE Head(parts).words + SumWords(Tail(parts))

\* len(' '.join(content_parts))
JoinedLen(parts) == IF parts = <<>> THEN 0 ELSE SumLen(parts) + Len(parts) - 1

ContentParts(page) == AddSelectors(<<>>, page.paras, 1)

\* the text of the first title selector that matches, "" when none does
RECURSIVE FirstTitle(_, _)
FirstTitle(titles, k) ==
  IF k > Len(titles) THEN ""
  ELSE IF titles[k].found THEN titles[k].text
  ELSE FirstTitle(titles, k + 1)

IdsOf(parts) == [i \in 1..Len(parts) |-> parts[i].id]

NoArticle == [none |-> TRUE]

BuildArticle(url, page) ==
  LET title == FirstTitle(page.titles, 1)
      parts == ContentParts(page)
      n == JoinedLen(parts)
  IN [none |-> FALSE,
      url |-> url,
      title |-> IF title # "" THEN title ELSE "No title found",
      content |-> [parts |-> IdsOf(parts),
                   len |-> IF n > MaxContentLen THEN MaxContentLen ELSE n],
      extracted_at |-> "now",
      word_count |-> SumWords(parts),
      category |-> categorize_url(url)]

\* what session.get and the parser did: they raised, or they gave a page
FetchRaised == [exc |-> TRUE, page |-> <<>>]
Fetched(page) == [exc |-> FALSE, page |-> page]

\* the function without its length check
extract_any_length(url, fetch) ==
  IF fetch.exc THEN Ret(NoArticle) ELSE Ret(BuildArticle(url, fetch.page))

\* the worker: None when the fetch raises or the joined text is too short
extract_single_article(url, fetch) ==
  IF fetch.exc THEN Ret(NoArticle)
  ELSE IF JoinedLen(ContentParts(fetch.page)) < MinContentLen THEN Ret(NoArticle)
  ELSE Ret(BuildArticle(url, fetch.page))

\* the pages of the model: per title selector whether it matches and its
\* text, per content selector the paragraphs it matches
NoTitle == [found |-> FALSE, text |-> ""]
Title(text) == [found |-> TRUE, text |-> text]
PadTo(seq, n, x) == [i \in 1..n |-> IF i <= Len(seq) THEN seq[i] ELSE x]
Page(titles, paras) ==
  [titles |-> PadTo(titles, NumTitleSelectors, NoTitle),
   paras |-> PadTo(paras, NumContentSelectors, <<>>)]

\* 21 + 21 + 56 characters and two joining spaces: 100 characters
OkPage ==
  Page(<<NoTitle, Title("Headline")>>,
       <<<<Para(1, 21, 4, FALSE), Para(2, 21, 4, FALSE)>>,
         <<Para(2, 21, 4, FALSE), Para(3, 56, 9, FALSE), Para(4, 60, 9, TRUE),
           Para(5, 20, 3, FALSE)>>>>)
\* 21 + 21 + 55 characters and two joining spaces: 99 characters
ShortPage ==
  Page(<<Title("")>>,
       <<<<>>, <<Para(1, 21, 4, FALSE), Para(2, 21, 4, FALSE), Para(3, 55, 9, FALSE)>>>>)

Fetches == {FetchRaised, Fetched(OkPage), Fetched(ShortPage)}

\* ------------------------------------------------- analyze_single_article
\* The article with the analysis merged into it. An article is a dict: the
\* worker writes the keys into the article it was given.
MergeAnalysis(article, a) ==
  LET headline == Get(a, "headline", Null)
      title == Get(article, "title", "")
      fields == {"ai_analysis", "title", "summary", "topics", "sentiment", "urgency"}
  IN [k \in DOMAIN article \cup fields |->
        CASE k = "ai_analysis" -> a
          [] k = "title" -> IF title = "" /\ Truthy(headline) THEN headline.s ELSE title
          [] k = "summary" -> Get(a, "summary", Str(""))
          [] k = "topics" -> Get(a, "key_topics", List(<<>>))
          [] k = "sentiment" -> Get(a, "sentiment", Str("neutral"))
          [] k = "urgency" -> Get(a, "urgency", Str("medium"))
          [] OTHER -> article[k]]

\* the worker returning the article without the analysis
analyze_single_article_unmerged(article, chat) == Ret(article)

\* a raise inside the worker is caught and the article returned as it is
analyze_single_article(article, chat) ==
  LET analysis == analyze_with_ollama_fast(chat)
  IN IF analysis.exc THEN Ret(article)
     ELSE Ret(MergeAnalysis(article, analysis.val))

\* ------------------------------------------------------------- statistics
Sentiments == {"positive", "negative", "neutral"}
Urgencies == {"high", "medium", "low"}

\* whether hash(v) raises TypeError
Unhashable(v) == v.t \in {"list", "dict"}

RECURSIVE CountSentiment(_, _)
CountSentiment(articles, s) ==
  IF articles = <<>> THEN 0
  ELSE LET v == Get(Head(articles), "sentiment", Null)
       IN (IF Truthy(v) /\ v = Str(s) THEN 1 ELSE 0) + CountSentiment(Tail(articles), s)

\* the lookup 'sentiment in distribution' hashes the sentiment
calculate_sentiment_distribution(articles) ==
  IF \E i \in 1..Len(articles) :
       LET v == Get(articles[i], "sentiment", Null) IN Truthy(v) /\ Unhashable(v)
  THEN Raise
  ELSE Ret([positive |-> CountSentiment(articles, "positive"),
            negative |-> CountSentiment(articles, "negative"),
            neutral |-> CountSentiment(articles, "neutral")])

\* all_topics: the articles' topic lists, one after the other
RECURSIVE AllTopics(_)
AllTopics(articles) ==
  IF articles = <<>> THEN <<>>
  ELSE Get(Head(articles), "topics", List(<<>>)).l \o AllTopics(Tail(articles))

\* topic_counts.items(): the topics in the order first seen, each with its count
RECURSIVE TopicCounts(_, _)
TopicCounts(all_topics, seen) ==
  IF all_topics = <<>> THEN <<>>
  ELSE LET t == Head(all_topics)
           n == Cardinality({i \in 1..Len(all_topics) : all_topics[i] = t})
       IN IF t \in seen THEN TopicCounts(Tail(all_topics), seen)
          ELSE <<<<t, n>>>> \o TopicCounts(Tail(all_topics), seen \cup {t})

\* sorted(items, key=count, reverse=True): stable, equal counts keep their order
RECURSIVE InsertByCount(_, _)
InsertByCount(sorted, item) ==
  IF sorted = <<>> THEN <<item>>
  ELSE IF Head(sorted)[2] >= item[2] THEN <<Head(sorted)>> \o InsertByCount(Tail(sorted), item)
  ELSE <<item>> \o sorted
RECURSIVE SortByCount(_, _)
SortByCount(items, sorted) ==
  IF items = <<>> THEN sorted
  ELSE SortByCount(Tail(items), InsertByCount(sorted, Head(items)))

TopN == 10
Take(seq, n) == SubSeq(seq, 1, IF Len(seq) < n THEN Len(seq) ELSE n)

\* the function cutting to ten before it sorts
extract_top_topics_cut_first(articles) ==
  IF \E i \in 1..Len(articles) : Get(articles[i], "topics", List(<<>>)).t # "list"
  THEN Raise
  ELSE Ret(SortByCount(Take(TopicCounts(AllTopics(articles), {}), TopN), <<>>))

\* all_topics.extend(topics) raises on a value that is not iterable
extract_top_topics(articles) ==
  IF \E i \in 1..Len(articles) : Get(articles[i], "topics", List(<<>>)).t # "list"
  THEN Raise
  ELSE Ret(Take(SortByCount(TopicCounts(AllTopics(articles), {}), <<>>), TopN))

RECURSIVE SumWordCount(_)
SumWordCount(articles) ==
  IF articles = <<>> THEN 0
  ELSE Get(Head(articles), "word_count", 0) + SumWordCount(Tail(articles))

\* a quotient, kept as numerator and denominator
Avg(articles) == [num |-> SumWordCount(articles), den |-> Len(articles)]

\* the category_data of crawl_all_content, or the raise of one of its parts
CategoryData(category, processed_articles) ==
  LET dist == calculate_sentiment_distribution(processed_articles)
      top == extract_top_topics(processed_articles)
  IN IF dist.exc \/ top.exc THEN Raise
     ELSE Ret([category_name |-> category,
               total_articles |-> Len(processed_articles),
               articles |-> processed_articles,
               statistics |-> [avg_word_count |-> Avg(processed_articles),
                               sentiment_distribution |-> dist.val,
                               top_topics |-> top.val]])

\* ------------------------------------------------------- generate_summary
Range(seq) == {seq[i] : i \in 1..Len(seq)}

\* the orders in which a set can be listed
RECURSIVE Perms(_)
Perms(S) ==
  IF S = {} THEN {<<>>}
  ELSE UNION {{<<x>> \o p : p \in Perms(S \ {x})} : x \in S}

SummaryTopics == 20

RECURSIVE CountGlobal(_, _)
CountGlobal(articles, s) ==
  IF articles = <<>> THEN 0
  ELSE (IF Get(Head(articles), "sentiment", Str("neutral")) = Str(s) THEN 1 ELSE 0)
         + CountGlobal(Tail(articles), s)

\* topic_order: the order in which set(all_topics) is listed
generate_summary(all_articles, topic_order) ==
  IF all_articles = <<>> THEN Ret(EmptyDict)
  ELSE IF \E i \in 1..Len(all_articles) :
            Unhashable(Get(all_articles[i], "sentiment", Str("neutral")))
  THEN Raise
  ELSE Ret([total_articles |-> Len(all_articles),
            total_categories |->
              Cardinality({Get(all_articles[i], "category", "unknown") :
                             i \in 1..Len(all_articles)}),
            avg_word_count |-> Avg(all_articles),
            global_sentiment |-> [positive |-> CountGlobal(all_articles, "positive"),
                                  negative |-> CountGlobal(all_articles, "negative"),
                                  neutral |-> CountGlobal(all_articles, "neutral")],
            unique_topics |-> Cardinality(Range(AllTopics(all_articles))),
            all_topics |-> Take(topic_order, SummaryTopics)])

\* ------------------------------------------------------------ url_patterns
CategoryOrder ==
  <<"world", "uk", "business", "environment", "science", "culture", "sport">>

SeedsOf(category) ==
  CASE category = "world" -> <<"/world", "/world/europe-news", "/world/americas",
                               "/world/asia-pacific">>
    [] category = "uk" -> <<"/uk-news", "/politics", "/society">>
    [] category = "business" -> <<"/business", "/business/economics", "/technology">>
    [] category = "environment" -> <<"/environment", "/environment/climate-change">>
    [] category = "science" -> <<"/science", "/science/medical-research">>
    [] category = "culture" -> <<"/culture", "/film", "/books">>
    [] OTHER -> <<"/sport", "/football">>

\* the categories and seeds the model crawls
Categories == Take(CategoryOrder, MaxCats)
url_patterns(category) == Take(SeedsOf(category), CrawlSeeds)

\* max_per_category as crawl_all_content passes it
CrawlMaxPerCategory == 5

\* ------------------------------------------------- fetch_single_category
\* what the fetch of a listing page did: it raised, or the page carries links
ListingRaised == [exc |-> TRUE, links |-> {}]
Listing(links) == [exc |-> FALSE, links |-> links]
Listings == {ListingRaised} \cup {Listing(links) : links \in SUBSET Urls}

ValidLinks(links) == {u \in links : is_valid_article_url(u)}

\* the orders list(found_links) can have
LinkOrders(listing) == Perms(ValidLinks(listing.links))

\* the worker that keeps every link of the page
fetch_single_category_unfiltered(listing, cap, order) ==
  IF listing.exc THEN Ret(<<>>)
  ELSE Ret(Take(CHOOSE p \in Perms(listing.links) : TRUE, cap))

\* order: found_links as list() lists it
fetch_single_category(listing, cap, order) ==
  IF listing.exc THEN Ret(<<>>) ELSE Ret(Take(order, cap))

\* list(all_articles), duplicates kept
ResultListsDup(all_articles) == {all_articles}

\* the lists list(set(all_articles)) can be
ResultLists(all_articles) == Perms(Range(all_articles))

\* ---------------------------------------------------------------- run_bot
TweetLimit == 280
KeepLen == 277
Ellipsis == <<".", ".", ".">>

\* the text of n characters of the model
Char(j) == <<"a", "b", "c">>[(j % 3) + 1]
T(n) == [j \in 1..n |-> Char(j)]

\* An entry of the tweet file: a dict with the keys it has, or a value that
\* is no dict (a string), on which .get raises.
Entry(d) == [dict |-> TRUE, d |-> d]
NotADict == [dict |-> FALSE, d |-> EmptyDict]
WithHashtags(text) == Entry([k \in {"tweet_with_hashtags"} |-> text])
TweetOnly(text) == Entry([k \in {"tweet"} |-> text])
Both(hashtags, text) ==
  Entry([k \in {"tweet_with_hashtags", "tweet"} |->
           IF k = "tweet" THEN text ELSE hashtags])

\* the lengths of the texts of the model, around the limit
Lens == {0, TweetLimit - 1, TweetLimit, TweetLimit + 1, 300}
Entries ==
  {WithHashtags(T(n)) : n \in Lens}
    \cup {TweetOnly(T(3)), Both(T(0), T(3)), NotADict}

\* tweet_data.get('tweet_with_hashtags', tweet_data.get('tweet', ''))
TweetText(tweet_data) ==
  Get(tweet_data.d, "tweet_with_hashtags", Get(tweet_data.d, "tweet", <<>>))

\* the length check cutting at the limit itself
TruncateAtLimit(tweet_text) ==
  IF Len(tweet_text) > TweetLimit
  THEN SubSeq(tweet_text, 1, TweetLimit) \o Ellipsis
  ELSE tweet_text

\* the length check of the loop
Truncate(tweet_text) ==
  IF Len(tweet_text) > TweetLimit
  THEN SubSeq(tweet_text, 1, KeepLen) \o Ellipsis
  ELSE tweet_text

\* max_tweets: None or a number
NoLimit == [none |-> TRUE, n |-> 0]
Limit(n) == [none |-> FALSE, n |-> n]
MaxTweetsArgs == {NoLimit, Limit(0), Limit(1)}

\* 'if max_tweets: tweets_data = tweets_data[:max_tweets]'
LimitTweets(data, max) ==
  IF ~max.none /\ max.n # 0 THEN Take(data, max.n) ELSE data

\* ------------------------------------------------------ the compose methods
\* What the page does to a compose method: whether finding, clicking and
\* filling the compose area goes through, and per post-button selector
\* whether the button is absent, takes the click, takes only the forced
\* click, or fails both.
NumButtons == 6
ButtonSeqs ==
  {[j \in 1..NumButtons |-> IF j < w \/ w = 0 THEN miss ELSE IF j = w THEN how ELSE "click"] :
     w \in 0..NumButtons, miss \in {"absent", "fail"}, how \in {"click", "force"}}
ButtonEnvs == {[compose_ok |-> c, buttons |-> b] : c \in BOOLEAN, b \in ButtonSeqs}
KeyEnvs == {[compose_ok |-> c, press_ok |-> k] : c \in BOOLEAN, k \in BOOLEAN}

\* the loop over the post-button selectors: the first button that takes the
\* click or the forced click ends it with True
RECURSIVE ButtonLoop(_)
ButtonLoop(buttons) ==
  IF buttons = <<>> THEN FALSE
  ELSE IF Head(buttons) \in {"click", "force"} THEN TRUE
  ELSE ButtonLoop(Tail(buttons))

try_compose_method_1(env) == env.compose_ok /\ ButtonLoop(env.buttons)
try_compose_method_2(env) == env.compose_ok /\ ButtonLoop(env.buttons)
try_compose_method_3(env) == env.compose_ok /\ env.press_ok

MethodEnvs(m) == IF m = 3 THEN KeyEnvs ELSE ButtonEnvs
TryCompose(m, env) ==
  CASE m = 1 -> try_compose_method_1(env)
    [] m = 2 -> try_compose_method_2(env)
    [] OTHER -> try_compose_method_3(env)

\* the loop over the post-button selectors going on after a click
RECURSIVE ButtonSubmitsNoReturn(_)
ButtonSubmitsNoReturn(buttons) ==
  IF buttons = <<>> THEN 0
  ELSE IF Head(buttons) \in {"click", "force"}
       THEN 1 + ButtonSubmitsNoReturn(Tail(buttons))
  ELSE ButtonSubmitsNoReturn(Tail(buttons))

\* the clicks of the loop over the post-button selectors that returned: a
\* button that is absent or fails both clicks gives none and the loop goes
\* on, the first click or forced click that returns ends the loop
RECURSIVE ButtonSubmits(_)
ButtonSubmits(buttons) ==
  IF buttons = <<>> THEN 0
  ELSE IF Head(buttons) \in {"click", "force"} THEN 1
  ELSE ButtonSubmits(Tail(buttons))

\* the submit actions of compose method m that returned: clicks of a post
\* button, or the press of Control+Enter; none when the compose area fails
Submits(m, env) ==
  IF ~env.compose_ok THEN 0
  ELSE IF m = 3 THEN (IF env.press_ok THEN 1 ELSE 0)
  ELSE ButtonSubmits(env.buttons)

NumMethods == 3

\* post_tweet's except clause re-raising
PostExceptReraise == Raise

\* post_tweet's except clause: log and return False
PostExcept == Ret(FALSE)

\* post_tweet going on to the next method whatever the last one returned
PostAfterTryAll(m, success) ==
  IF m < NumMethods THEN [ppc |-> "try", result |-> Ret(FALSE)]
  ELSE [ppc |-> "returned", result |-> Ret(success)]

\* post_tweet after method m returned: True at once on success, the next
\* method on failure, False after the last
PostAfter(m, success) ==
  IF success THEN [ppc |-> "returned", result |-> Ret(TRUE)]
  ELSE IF m < NumMethods THEN [ppc |-> "try", result |-> Ret(FALSE)]
  ELSE [ppc |-> "returned", result |-> Ret(FALSE)]

\* the loop giving up at the first entry that fails
AfterFailureAbort(i, n) == n + 1

\* the loop after entry i of n failed: on to the next entry
AfterFailure(i, n) == i + 1

\* ------------------------------------------------------------------ state
VARIABLES
  response,          \* analysis run: what the chat call did
  analysis,          \* analysis run: the outcome of analyze_with_ollama_fast
  apc,               \* analysis run: "call" before the call, "returned" after
  dpc,               \* discover_article_urls: "idle", "running", "returned"
  base_urls,         \* its seeds
  max_per_category,  \* its cap
  pending,           \* the seeds (by position) whose future has not completed
  seed_result,       \* per completed seed: whether its fetch succeeded, the
                     \* valid links of its page and the list its worker returned
  all_articles,      \* its list of the workers' results
  article_urls,      \* the list it returned
  cpc,               \* crawl_all_content: where it stands
  cat,               \* the position of its category in url_patterns
  ex_pending,        \* extract_content_direct: URLs whose future has not completed
  extraction,        \* the last call of extract_single_article: its URL, what
                     \* its fetch did, its outcome
  failed,            \* the (category, URL) pairs whose fetch raised or whose
                     \* joined text was too short
  extracted,         \* the (category, URL) pairs whose worker returned an article
  articles,          \* extract_content_direct's list
  en_pending,        \* process_articles_parallel: articles not yet analysed
  processed_articles,\* its list
  total_articles,    \* crawl_all_content's list
  all_data,          \* the report
  epc,               \* extraction run: "call" before the call, "returned" after
  bpc,               \* run_bot: where it stands
  max_tweets,        \* its argument
  tweets_data,       \* the entries loaded, after the limit
  idx,               \* the loop's position in tweets_data
  successful_posts,  \* its counters
  failed_posts,
  logged_in,         \* whether login_to_twitter returned
  res,               \* per resource: "none", "open", "closed", or "failed"
                     \* when its close raised
  posted,            \* the calls of post_tweet: the entry's position and the text
  ppc,               \* post_tweet: "idle", "nav", "try", "returned"
  nav,               \* what its navigation did
  calls,             \* the compose methods it invoked, each with its result
                     \* and the number of its submit actions that returned
  post_result,       \* its outcome
  won,               \* per successful call of post_tweet in this run: the
                     \* value it returned and the method that succeeded
  quit_calls,        \* how often quit has been called
  mpc,               \* the crawler script: where it stands
  save_result,       \* whether it called save_data, and the call's outcome
  announced,         \* the closing messages it printed
  gpc,               \* aggregation run: "call" before the call, "returned" after
  agg_in,            \* aggregation run: the lists of enriched articles given
  agg_out,           \* aggregation run: the result for each list
  pool,              \* pool run: the function whose pool it is
  pool_pc,           \* pool run: "idle", "running", "returned" after the with block
  worker,            \* per submitted task: "queued", "running" or "done"
  future,            \* per done task: the outcome of its worker
  yielded,           \* the tasks whose future as_completed has yielded
  writes             \* who wrote what: 0 writes as the thread that runs the
                     \* pool, k as the worker of task k; object 0 is the
                     \* result list, object k the argument of task k

avars == <<response, analysis, apc>>
dvars == <<dpc, base_urls, max_per_category, pending, seed_result, all_articles,
           article_urls>>
cvars == <<cpc, cat, ex_pending, extraction, failed, extracted, articles, en_pending,
           processed_articles, total_articles, all_data>>
evars == <<epc>>
bvars == <<bpc, max_tweets, tweets_data, idx, successful_posts, failed_posts,
           logged_in, res, posted, ppc, nav, calls, post_result, won, quit_calls>>
mvars == <<mpc, save_result, announced>>
gvars == <<gpc, agg_in, agg_out>>
pvars == <<pool, pool_pc, worker, future, yielded, writes>>
vars == <<avars, dvars, cvars, evars, bvars, mvars, gvars, pvars>>

\* the replies the crawl meets: the call raises, a well-formed object, an
\* object with values outside the prompt's, an embedded object with a null
\* topic list
CrawlReplies ==
  {ChatRaised,
   ChatReply(<<"{", "s:positive", "t:list", "}">>),
   ChatReply(<<"{", "s:mixed", "u:critical", "}">>),
   ChatReply(<<"x", "{", "t:null", "}">>)}

NoExtraction == [called |-> FALSE, url |-> U1, fetch |-> FetchRaised, outcome |-> Raise]
EmptyReport == [categories |-> EmptyDict, summary |-> EmptyDict, all_articles |-> <<>>,
                completed |-> FALSE, success |-> FALSE]

AnalyzeIdle == response = ChatRaised /\ analysis = Raise /\ apc = "idle"
DiscoverIdle ==
  /\ dpc = "idle" /\ base_urls = <<>> /\ max_per_category = 0 /\ pending = {}
  /\ seed_result = EmptyDict /\ all_articles = <<>> /\ article_urls = <<>>
CrawlIdle ==
  /\ cpc = "idle" /\ cat = 0 /\ ex_pending = {} /\ extraction = NoExtraction
  /\ failed = {} /\ extracted = {} /\ articles = <<>> /\ en_pending = {}
  /\ processed_articles = <<>> /\ total_articles = <<>> /\ all_data = EmptyReport

NoResources == [playwright |-> "none", browser |-> "none", context |-> "none",
                page |-> "none"]
ExtractIdle == epc = "idle"
BotIdle ==
  /\ bpc = "idle" /\ max_tweets = NoLimit /\ tweets_data = <<>> /\ idx = 0
  /\ successful_posts = 0 /\ failed_posts = 0 /\ logged_in = FALSE
  /\ res = NoResources /\ posted = <<>> /\ ppc = "idle" /\ nav = "none"
  /\ calls = <<>> /\ post_result = Ret(FALSE) /\ won = {} /\ quit_calls = 0

NotSaved == [called |-> FALSE, exc |-> FALSE, val |-> FALSE]
MainIdle == mpc = "idle" /\ save_result = NotSaved /\ announced = {}
AggregateIdle == gpc = "idle" /\ agg_in = <<>> /\ agg_out = <<>>
PoolIdle ==
  /\ pool = "idle" /\ pool_pc = "idle" /\ worker = <<>> /\ future = EmptyDict
  /\ yielded = {} /\ writes = {}

\* ------------------------------------- a run of analyze_with_ollama_fast
InitAnalyze ==
  /\ \/ response = ChatRaised
     \/ \E n \in 0..MaxRespLen : \E text \in [1..n -> Tokens] : response = ChatReply(text)
  /\ analysis = Raise
  /\ apc = "call"
  /\ DiscoverIdle /\ CrawlIdle /\ ExtractIdle /\ BotIdle /\ MainIdle /\ AggregateIdle
  /\ PoolIdle

CallAnalyze ==
  /\ apc = "call"
  /\ analysis' = analyze_with_ollama_fast(response)
  /\ apc' = "returned"
  /\ UNCHANGED <<response, dvars, cvars, evars, bvars, mvars, gvars, pvars>>

NextAnalyze == CallAnalyze

SpecAnalyze == InitAnalyze /\ [][NextAnalyze]_vars

\* --------------------------------------------------- discover_article_urls
\* the call starts: one future per seed
StartDiscover(urls, cap) ==
  /\ dpc' = "running"
  /\ base_urls' = urls
  /\ max_per_category' = cap
  /\ pending' = 1..Len(urls)
  /\ seed_result' = EmptyDict
  /\ all_articles' = <<>>
  /\ article_urls' = <<>>

\* as_completed yields the future of seed i: its result extends all_articles
DiscoverComplete(i) ==
  /\ dpc = "running"
  /\ i \in pending
  /\ \E listing \in Listings : \E order \in LinkOrders(listing) :
       LET r == fetch_single_category(listing, max_per_category, order)
       IN /\ all_articles' = IF r.exc THEN all_articles ELSE all_articles \o r.val
          /\ seed_result' = Put(seed_result, i,
                                [ok |-> ~listing.exc,
                                 valid |-> ValidLinks(listing.links),
                                 returned |-> IF r.exc THEN <<>> ELSE r.val])
  /\ pending' = pending \ {i}
  /\ UNCHANGED <<dpc, base_urls, max_per_category, article_urls, avars, mvars, gvars, pvars, evars, bvars, cvars>>

\* the pool is done: return list(set(all_articles))
DiscoverReturn ==
  /\ dpc = "running"
  /\ pending = {}
  /\ article_urls' \in ResultLists(all_articles)
  /\ dpc' = "returned"
  /\ UNCHANGED <<base_urls, max_per_category, pending, seed_result, all_articles,
                 avars, mvars, gvars, pvars, evars, bvars, cvars>>

InitDiscover ==
  /\ dpc = "running"
  /\ \E n \in 0..MaxSeeds : base_urls = Take(SeedsOf("world"), n)
  /\ max_per_category \in 1..MaxCap
  /\ pending = 1..Len(base_urls)
  /\ seed_result = EmptyDict
  /\ all_articles = <<>>
  /\ article_urls = <<>>
  /\ AnalyzeIdle /\ CrawlIdle /\ ExtractIdle /\ BotIdle /\ MainIdle /\ AggregateIdle
  /\ PoolIdle

NextDiscover ==
  \/ \E i \in 1..MaxSeeds : DiscoverComplete(i)
  \/ DiscoverReturn

SpecDiscover == InitDiscover /\ [][NextDiscover]_vars

\* ------------------------------------------------------- crawl_all_content
Category == Categories[cat]

\* the loop moves to the next category
NextCategory ==
  /\ cat' = cat + 1
  /\ cpc' = "loop"
  /\ ex_pending' = {}
  /\ extraction' = NoExtraction
  /\ articles' = <<>>
  /\ en_pending' = {}
  /\ processed_articles' = <<>>

\* the loop takes a category and calls discover_article_urls on its seeds
CrawlCategory ==
  /\ cpc = "loop"
  /\ cat <= Len(Categories)
  /\ StartDiscover(url_patterns(Category), CrawlMaxPerCategory)
  /\ cpc' = "discover"
  /\ UNCHANGED <<cat, ex_pending, extraction, failed, extracted, articles, en_pending,
                 processed_articles, total_articles, all_data, avars, mvars, gvars, pvars, evars, bvars>>

\* discovery returned: no URL ends the category, else extraction starts
\* with one future per URL
StartExtract ==
  /\ cpc = "discover"
  /\ dpc = "returned"
  /\ dpc' = "idle" /\ base_urls' = <<>> /\ max_per_category' = 0 /\ pending' = {}
  /\ seed_result' = EmptyDict /\ all_articles' = <<>> /\ article_urls' = <<>>
  /\ IF article_urls = <<>>
     THEN NextCategory
     ELSE /\ cpc' = "extract"
          /\ ex_pending' = Range(article_urls)
          /\ UNCHANGED <<cat, extraction, articles, en_pending, processed_articles>>
  /\ UNCHANGED <<failed, extracted, total_articles, all_data, avars, mvars, gvars, pvars, evars, bvars>>

\* as_completed yields the future of url: its article, when it has one, is
\* appended; a raise of the worker is printed
ExtractComplete(url) ==
  /\ cpc = "extract"
  /\ url \in ex_pending
  /\ \E fetch \in Fetches :
       LET r == extract_single_article(url, fetch)
           too_short == ~fetch.exc /\ JoinedLen(ContentParts(fetch.page)) < MinContentLen
       IN /\ articles' = IF ~r.exc /\ ~r.val.none THEN Append(articles, r.val)
                         ELSE articles
          /\ extraction' = [called |-> TRUE, url |-> url, fetch |-> fetch,
                            outcome |-> r]
          /\ failed' = IF fetch.exc \/ too_short
                       THEN failed \cup {<<Category, url>>} ELSE failed
          /\ extracted' = IF ~r.exc /\ ~r.val.none
                          THEN extracted \cup {<<Category, url>>} ELSE extracted
  /\ ex_pending' = ex_pending \ {url}
  /\ UNCHANGED <<cpc, cat, en_pending, processed_articles, total_articles, all_data,
                 avars, mvars, gvars, pvars, evars, bvars, dvars>>

\* extraction returned: no article ends the category, else the analysis
\* starts with one future per article
StartProcess ==
  /\ cpc = "extract"
  /\ ex_pending = {}
  /\ IF articles = <<>>
     THEN NextCategory
     ELSE /\ cpc' = "process"
          /\ en_pending' = 1..Len(articles)
          /\ extraction' = NoExtraction
          /\ UNCHANGED <<cat, ex_pending, articles, processed_articles>>
  /\ UNCHANGED <<failed, extracted, total_articles, all_data, avars, mvars, gvars, pvars, evars, bvars, dvars>>

\* as_completed yields the future of article k: the worker's article is
\* appended; a raise of the worker is printed
AnalyzeComplete(k) ==
  /\ cpc = "process"
  /\ k \in en_pending
  /\ \E chat \in CrawlReplies :
       LET r == analyze_single_article(articles[k], chat)
       IN processed_articles' = IF r.exc THEN processed_articles
                                ELSE Append(processed_articles, r.val)
  /\ en_pending' = en_pending \ {k}
  /\ UNCHANGED <<cpc, cat, ex_pending, extraction, failed, extracted, articles,
                 total_articles,
                 all_data, avars, mvars, gvars, pvars, evars, bvars, dvars>>

\* the analysis returned: the category's data is built and stored; a raise
\* while building it is caught by the loop's except, which goes on
StoreCategory ==
  /\ cpc = "process"
  /\ en_pending = {}
  /\ LET data == CategoryData(Category, processed_articles)
     IN IF data.exc
        THEN UNCHANGED <<total_articles, all_data>>
        ELSE /\ all_data' = [all_data EXCEPT
                               !.categories = Put(@, Category, data.val)]
             /\ total_articles' = total_articles \o processed_articles
  /\ NextCategory
  /\ UNCHANGED <<failed, extracted, avars, mvars, gvars, pvars, evars, bvars, dvars>>

\* after the loop: the flat list, the summary and the metadata
Finish ==
  /\ cpc = "loop"
  /\ cat > Len(Categories)
  /\ \E topic_order \in Perms(Range(AllTopics(total_articles))) :
       LET summary == generate_summary(total_articles, topic_order)
       IN IF summary.exc
          THEN /\ cpc' = "raised"
               /\ all_data' = [all_data EXCEPT !.all_articles = total_articles]
          ELSE /\ cpc' = "done"
               /\ all_data' = [all_data EXCEPT !.all_articles = total_articles,
                                               !.summary = summary.val,
                                               !.completed = TRUE,
                                               !.success = Len(total_articles) > 0]
  /\ UNCHANGED <<cat, ex_pending, extraction, failed, extracted, articles, en_pending,
                 processed_articles, total_articles, avars, mvars, gvars, pvars, evars, bvars, dvars>>

\* the call starts: the empty report, the first category
CrawlEntry ==
  /\ cpc = "loop" /\ cat = 1 /\ ex_pending = {} /\ extraction = NoExtraction
  /\ failed = {} /\ extracted = {} /\ articles = <<>> /\ en_pending = {}
  /\ processed_articles = <<>> /\ total_articles = <<>> /\ all_data = EmptyReport

InitCrawl ==
  /\ CrawlEntry
  /\ AnalyzeIdle /\ DiscoverIdle /\ ExtractIdle /\ BotIdle /\ MainIdle /\ AggregateIdle
  /\ PoolIdle

NextCrawl ==
  \/ CrawlCategory
  \/ \E i \in 1..CrawlSeeds : DiscoverComplete(i)
  \/ DiscoverReturn
  \/ StartExtract
  \/ \E url \in Urls : ExtractComplete(url)
  \/ StartProcess
  \/ \E k \in 1..Cardinality(Urls) : AnalyzeComplete(k)
  \/ StoreCategory
  \/ Finish

SpecCrawl == InitCrawl /\ [][NextCrawl]_vars

\* ------------------------------------------------ the crawler script (main)
\* save_data: True when the file was written, False when open or json.dump
\* raised
save_data(write_ok) == IF write_ok THEN Ret(TRUE) ELSE Ret(FALSE)

\* crawl_all_content returned: the branch on summary.total_articles, which
\* prints the results and calls save_data, or prints that nothing was
\* extracted
MainSave ==
  /\ mpc = "crawl"
  /\ cpc = "done"
  /\ IF Get(all_data.summary, "total_articles", 0) > 0
     THEN /\ \E write_ok \in BOOLEAN :
               LET r == save_data(write_ok)
               IN save_result' = [called |-> TRUE, exc |-> r.exc, val |-> r.val]
          /\ mpc' = "saved"
          /\ UNCHANGED announced
     ELSE /\ announced' = {"no_articles"}
          /\ mpc' = "done"
          /\ UNCHANGED save_result
  /\ UNCHANGED <<avars, dvars, cvars, evars, bvars, gvars, pvars>>

\* after save_data: the two closing messages
MainAnnounce ==
  /\ mpc = "saved"
  /\ announced' = {"completed_successfully", "file_saved"}
  /\ mpc' = "done"
  /\ UNCHANGED <<save_result, avars, dvars, cvars, evars, bvars, gvars, pvars>>

InitMain ==
  /\ CrawlEntry
  /\ mpc = "crawl" /\ save_result = NotSaved /\ announced = {}
  /\ AnalyzeIdle /\ DiscoverIdle /\ ExtractIdle /\ BotIdle /\ AggregateIdle
  /\ PoolIdle

NextMain ==
  \/ NextCrawl
  \/ MainSave
  \/ MainAnnounce

SpecMain == InitMain /\ [][NextMain]_vars

\* ------------------------------------------------- a run of the aggregation
\* An enriched article: the article extracted from a page, with the object
\* the model service returned merged into it.
Analysis(sentiment, topics) ==
  [DefaultAnalysis EXCEPT !["headline"] = Str("Headline"),
                          !["summary"] = Str("Summary"),
                          !["sentiment"] = Str(sentiment),
                          !["key_topics"] = List(topics)]
ArticleNames == <<"a", "b", "c", "d", "e">>
ArticleUrl(i) == Url("www.theguardian.com", <<"world", "2025", ArticleNames[i]>>, {})
Enriched(i, sentiment, topics) ==
  MergeAnalysis(BuildArticle(ArticleUrl(i), OkPage), Analysis(sentiment, topics))

\* the enriched articles of a category the aggregation is run on
AggregateMenu ==
  {Enriched(1, "positive", <<"t1", "t2">>),
   Enriched(2, "negative", <<"t3">>),
   Enriched(3, "mixed", <<"t2", "t3">>),
   Enriched(4, "neutral", <<>>)}

\* the statistics of a list of enriched articles: those of its category and
\* the summary; topic_order is the order in which set(all_topics) is listed
Statistics(enriched, topic_order) ==
  [category |-> CategoryData("world", enriched),
   summary |-> generate_summary(enriched, topic_order)]

\* the same articles in two orders of completion
InitAggregate ==
  /\ gpc = "call"
  /\ \E S \in SUBSET AggregateMenu :
       /\ Cardinality(S) <= MaxAggArticles
       /\ \E first \in Perms(S), second \in Perms(S) : agg_in = <<first, second>>
  /\ agg_out = <<>>
  /\ AnalyzeIdle /\ DiscoverIdle /\ CrawlIdle /\ ExtractIdle /\ BotIdle /\ MainIdle
  /\ PoolIdle

\* the aggregation is run on each list
Aggregate ==
  /\ gpc = "call"
  /\ \E topic_order \in Perms(Range(AllTopics(agg_in[1]))) :
       agg_out' = <<Statistics(agg_in[1], topic_order),
                    Statistics(agg_in[2], topic_order)>>
  /\ gpc' = "returned"
  /\ UNCHANGED <<agg_in, avars, dvars, cvars, evars, bvars, mvars, pvars>>

NextAggregate == Aggregate

SpecAggregate == InitAggregate /\ [][NextAggregate]_vars

\* --------------------------------------------- a run of extract_top_topics
\* the enriched articles it is run on: thirteen topics, some in two
\* articles, one twice in one article, and a topic list that is null
TopTopicsMenu ==
  {Enriched(1, "positive", <<"t1", "t2", "t3", "t4", "t5", "t6">>),
   Enriched(2, "negative", <<"t7", "t8", "t9", "t10", "t11", "t12">>),
   Enriched(3, "neutral", <<"t12", "t1">>),
   Enriched(4, "neutral", <<"t3", "t3", "t13">>),
   Enriched(5, "neutral", <<>>),
   [Enriched(5, "neutral", <<>>) EXCEPT !["topics"] = Null]}

InitTopTopics ==
  /\ gpc = "call"
  /\ \E S \in SUBSET TopTopicsMenu :
       /\ Cardinality(S) <= MaxAggArticles
       /\ \E enriched \in Perms(S) : agg_in = <<enriched>>
  /\ agg_out = <<>>
  /\ AnalyzeIdle /\ DiscoverIdle /\ CrawlIdle /\ ExtractIdle /\ BotIdle /\ MainIdle
  /\ PoolIdle

CallTopTopics ==
  /\ gpc = "call"
  /\ agg_out' = <<extract_top_topics(agg_in[1])>>
  /\ gpc' = "returned"
  /\ UNCHANGED <<agg_in, avars, dvars, cvars, evars, bvars, mvars, pvars>>

NextTopTopics == CallTopTopics

SpecTopTopics == InitTopTopics /\ [][NextTopTopics]_vars

\* ------------------------------------------------------ the worker pools
\* Each of discover_article_urls, extract_content_direct and
\* process_articles_parallel submits one task per argument to a pool of its
\* own and collects the futures with as_completed in the thread that called
\* it. A worker is split in two steps, its start and its end, so that the
\* workers and the collecting thread interleave.
Pools == {"discover", "extract", "process"}

max_workers(p) ==
  CASE p = "discover" -> 4
    [] p = "extract" -> 3
    [] OTHER -> 2

\* the list the pool's results are merged into: all_articles, articles,
\* processed_articles
Container ==
  CASE pool = "discover" -> all_articles
    [] pool = "extract" -> articles
    [] pool = "process" -> processed_articles
    [] OTHER -> <<>>

\* the objects the worker of task k writes: analyze_single_article assigns
\* keys of the article it was given; the other two workers write their locals
WorkerWrites(p, k) == IF p = "process" THEN {k} ELSE {}

\* the collecting loop that binds the result instead of adding it
MergeRebind(p, container, r) ==
  CASE p = "discover" -> IF r.exc THEN container ELSE r.val
    [] p = "extract" -> IF ~r.exc /\ ~r.val.none THEN <<r.val>> ELSE container
    [] OTHER -> IF r.exc THEN container ELSE <<r.val>>

\* the body of the as_completed loop: extend by the links, append the
\* article when there is one, append the article; a raise of future.result()
\* is printed
Merge(p, container, r) ==
  CASE p = "discover" -> IF r.exc THEN container ELSE container \o r.val
    [] p = "extract" -> IF ~r.exc /\ ~r.val.none THEN Append(container, r.val)
                        ELSE container
    [] OTHER -> IF r.exc THEN container ELSE Append(container, r.val)

\* a free thread of the pool takes the oldest queued task
WorkerStart(k) ==
  /\ pool_pc = "running"
  /\ k \in DOMAIN worker
  /\ worker[k] = "queued"
  /\ \A j \in 1..(k - 1) : worker[j] # "queued"
  /\ Cardinality({j \in DOMAIN worker : worker[j] = "running"}) < max_workers(pool)
  /\ worker' = [worker EXCEPT ![k] = "running"]
  /\ UNCHANGED <<pool, pool_pc, future, yielded, writes,
                 avars, dvars, cvars, evars, bvars, mvars, gvars>>

\* the worker of task k ends with outcome r
WorkerEnd(k, r) ==
  /\ worker' = [worker EXCEPT ![k] = "done"]
  /\ future' = Put(future, k, r)
  /\ writes' = writes \cup {[by |-> k, obj |-> o] : o \in WorkerWrites(pool, k)}
  /\ UNCHANGED <<pool, pool_pc, yielded>>

FetchEnd(k) ==
  /\ pool = "discover"
  /\ k \in DOMAIN worker
  /\ worker[k] = "running"
  /\ \E listing \in Listings : \E order \in LinkOrders(listing) :
       WorkerEnd(k, fetch_single_category(listing, max_per_category, order))
  /\ UNCHANGED <<avars, dvars, cvars, evars, bvars, mvars, gvars>>

ExtractEnd(k) ==
  /\ pool = "extract"
  /\ k \in DOMAIN worker
  /\ worker[k] = "running"
  /\ \E fetch \in Fetches : WorkerEnd(k, extract_single_article(article_urls[k], fetch))
  /\ UNCHANGED <<avars, dvars, cvars, evars, bvars, mvars, gvars>>

\* the article the worker returns is the one it was given, written in place
AnalyzeEnd(k) ==
  /\ pool = "process"
  /\ k \in DOMAIN worker
  /\ worker[k] = "running"
  /\ \E chat \in CrawlReplies :
       LET r == analyze_single_article(articles[k], chat)
       IN /\ WorkerEnd(k, r)
          /\ articles' = [articles EXCEPT ![k] = r.val]
  /\ UNCHANGED <<cpc, cat, ex_pending, extraction, failed, extracted, en_pending,
                 processed_articles, total_articles, all_data,
                 avars, dvars, evars, bvars, mvars, gvars>>

\* as_completed yields the future of task k, which is done, and the loop
\* body merges its result
Collect(k) ==
  /\ pool_pc = "running"
  /\ k \in DOMAIN future
  /\ k \notin yielded
  /\ LET merged == Merge(pool, Container, future[k])
     IN /\ all_articles' = IF pool = "discover" THEN merged ELSE all_articles
        /\ articles' = IF pool = "extract" THEN merged ELSE articles
        /\ processed_articles' = IF pool = "process" THEN merged
                                 ELSE processed_articles
  /\ yielded' = yielded \cup {k}
  /\ writes' = writes \cup {[by |-> 0, obj |-> 0]}
  /\ UNCHANGED <<pool, pool_pc, worker, future,
                 dpc, base_urls, max_per_category, pending, seed_result, article_urls,
                 cpc, cat, ex_pending, extraction, failed, extracted, en_pending,
                 total_articles, all_data, avars, evars, bvars, mvars, gvars>>

\* every future was yielded: the with block ends
PoolReturn ==
  /\ pool_pc = "running"
  /\ yielded = DOMAIN worker
  /\ pool_pc' = "returned"
  /\ UNCHANGED <<pool, worker, future, yielded, writes,
                 avars, dvars, cvars, evars, bvars, mvars, gvars>>

\* the tasks a pool is given: seeds, discovered URLs, extracted articles
InitPools ==
  /\ pool \in Pools
  /\ pool_pc = "running"
  /\ \E n \in 1..MaxPoolTasks :
       /\ worker = [k \in 1..n |-> "queued"]
       /\ base_urls = IF pool = "discover" THEN Take(SeedsOf("world"), n) ELSE <<>>
       /\ article_urls = IF pool = "extract" THEN [k \in 1..n |-> ArticleUrl(k)]
                         ELSE <<>>
       /\ articles = IF pool = "process"
                     THEN [k \in 1..n |-> BuildArticle(ArticleUrl(k), OkPage)]
                     ELSE <<>>
  /\ max_per_category \in IF pool = "discover" THEN 1..MaxCap ELSE {0}
  /\ future = EmptyDict /\ yielded = {} /\ writes = {}
  /\ dpc = "idle" /\ pending = {} /\ seed_result = EmptyDict /\ all_articles = <<>>
  /\ cpc = "idle" /\ cat = 0 /\ ex_pending = {} /\ extraction = NoExtraction
  /\ failed = {} /\ extracted = {} /\ en_pending = {}
  /\ processed_articles = <<>> /\ total_articles = <<>> /\ all_data = EmptyReport
  /\ AnalyzeIdle /\ ExtractIdle /\ BotIdle /\ MainIdle /\ AggregateIdle

NextPools ==
  \/ \E k \in 1..MaxPoolTasks :
       \/ WorkerStart(k)
       \/ FetchEnd(k)
       \/ ExtractEnd(k)
       \/ AnalyzeEnd(k)
       \/ Collect(k)
  \/ PoolReturn

SpecPools == InitPools /\ [][NextPools]_vars

\* ------------------------------------- a run of extract_single_article
InitExtract ==
  /\ epc = "call"
  /\ cpc = "idle" /\ cat = 0 /\ ex_pending = {}
  /\ \E url \in Urls, fetch \in Fetches :
       extraction = [called |-> FALSE, url |-> url, fetch |-> fetch, outcome |-> Raise]
  /\ failed = {} /\ extracted = {} /\ articles = <<>> /\ en_pending = {}
  /\ processed_articles = <<>> /\ total_articles = <<>> /\ all_data = EmptyReport
  /\ AnalyzeIdle /\ DiscoverIdle /\ BotIdle /\ MainIdle /\ AggregateIdle
  /\ PoolIdle

CallExtract ==
  /\ epc = "call"
  /\ extraction' = [extraction EXCEPT
                      !.called = TRUE,
                      !.outcome = extract_single_article(extraction.url, extraction.fetch)]
  /\ epc' = "returned"
  /\ UNCHANGED <<cpc, cat, ex_pending, failed, extracted, articles, en_pending,
                 processed_articles, total_articles, all_data, avars, mvars, gvars, pvars, dvars, bvars>>

\* ------------------------------------------------------------- post_tweet
\* run_bot calls post_tweet
StartPost ==
  /\ ppc' = "nav" /\ nav' = "none" /\ calls' = <<>> /\ post_result' = Ret(FALSE)

\* the check of page.url and the navigation to the home page; a raise ends
\* the call in its except clause
PostNavigate ==
  /\ ppc = "nav"
  /\ \E did \in {"home", "goto", "raise"} :
       /\ nav' = did
       /\ IF did = "raise"
          THEN ppc' = "returned" /\ post_result' = PostExcept
          ELSE ppc' = "try" /\ UNCHANGED post_result
  /\ UNCHANGED <<calls, bpc, max_tweets, tweets_data, idx, successful_posts,
                 failed_posts, logged_in, res, posted, won, quit_calls,
                 avars, mvars, gvars, pvars, dvars, cvars, evars>>

\* the next compose method is invoked and returns
PostTry(m) ==
  /\ ppc = "try"
  /\ m = Len(calls) + 1
  /\ \E env \in MethodEnvs(m) :
       LET success == TryCompose(m, env)
           after == PostAfter(m, success)
       IN /\ calls' = Append(calls, [method |-> m, success |-> success,
                                     submits |-> Submits(m, env)])
          /\ ppc' = after.ppc
          /\ post_result' = after.result
          /\ won' = IF after.ppc = "returned" /\ success
                    THEN won \cup {[value |-> after.result.val, method |-> m]}
                    ELSE won
  /\ UNCHANGED <<nav, bpc, max_tweets, tweets_data, idx, successful_posts,
                 failed_posts, logged_in, res, posted, quit_calls,
                 avars, mvars, gvars, pvars, dvars, cvars, evars>>

\* ----------------------------------------------------------------- run_bot
Resources == <<"playwright", "browser", "context", "page">>

\* setup_browser: the resources are opened in order; a raise part-way, or
\* after the page is open, leaves the opened ones and ends run_bot's try
SetupBrowser ==
  /\ bpc = "setup"
  /\ \E k \in 0..Len(Resources), ok \in BOOLEAN :
       /\ ok => k = Len(Resources)
       /\ res' = [r \in DOMAIN res |->
                    IF \E j \in 1..k : Resources[j] = r THEN "open" ELSE res[r]]
       /\ bpc' = IF ok THEN "load" ELSE "finally"
  /\ UNCHANGED <<max_tweets, tweets_data, idx, successful_posts, failed_posts,
                 logged_in, posted, ppc, nav, calls, post_result, won, quit_calls,
                 avars, mvars, gvars, pvars, dvars, cvars, evars>>

\* load_tweets_from_json and the limit: no entry ends the run
LoadTweets ==
  /\ bpc = "load"
  /\ \E n \in 0..MaxTweets : \E data \in [1..n -> Entries] :
       /\ tweets_data' = IF n = 0 THEN <<>> ELSE LimitTweets(data, max_tweets)
       /\ bpc' = IF n = 0 THEN "finally" ELSE "login"
  /\ UNCHANGED <<max_tweets, idx, successful_posts, failed_posts, logged_in, res,
                 posted, ppc, nav, calls, post_result, won, quit_calls,
                 avars, mvars, gvars, pvars, dvars, cvars, evars>>

\* login_to_twitter returns, or raises and ends the run
Login ==
  /\ bpc = "login"
  /\ \E ok \in BOOLEAN :
       /\ logged_in' = ok
       /\ bpc' = IF ok THEN "loop" ELSE "finally"
       /\ idx' = IF ok THEN 1 ELSE idx
  /\ UNCHANGED <<max_tweets, tweets_data, successful_posts, failed_posts, res,
                 posted, ppc, nav, calls, post_result, won, quit_calls,
                 avars, mvars, gvars, pvars, dvars, cvars, evars>>

\* the loop takes entry idx: .get raises on an entry that is no dict, an
\* empty text is skipped, any other is cut to the limit and posted
Iterate ==
  /\ bpc = "loop"
  /\ idx <= Len(tweets_data)
  /\ LET tweet_data == tweets_data[idx] IN
       IF ~tweet_data.dict
       THEN /\ failed_posts' = failed_posts + 1
            /\ idx' = AfterFailure(idx, Len(tweets_data))
            /\ UNCHANGED <<bpc, posted, ppc, nav, calls, post_result>>
       ELSE IF TweetText(tweet_data) = <<>>
       THEN /\ idx' = idx + 1
            /\ UNCHANGED <<bpc, failed_posts, posted, ppc, nav, calls, post_result>>
       ELSE /\ posted' = Append(posted, [i |-> idx,
                                         text |-> Truncate(TweetText(tweet_data))])
            /\ StartPost
            /\ bpc' = "posting"
            /\ UNCHANGED <<idx, failed_posts>>
  /\ UNCHANGED <<max_tweets, tweets_data, successful_posts, logged_in, res,
                 won, quit_calls, avars, mvars, gvars, pvars, dvars, cvars, evars>>

\* post_tweet is back: the counters, the wait, the next entry
AfterPost ==
  /\ bpc = "posting"
  /\ ppc = "returned"
  /\ IF ~post_result.exc /\ post_result.val
     THEN /\ successful_posts' = successful_posts + 1
          /\ idx' = idx + 1
          /\ UNCHANGED failed_posts
     ELSE /\ failed_posts' = failed_posts + 1
          /\ idx' = AfterFailure(idx, Len(tweets_data))
          /\ UNCHANGED successful_posts
  /\ bpc' = "loop"
  /\ ppc' = "idle"
  /\ UNCHANGED <<max_tweets, tweets_data, logged_in, res, posted, nav, calls,
                 post_result, won, quit_calls, avars, mvars, gvars, pvars, dvars, cvars, evars>>

\* the loop is over: the summary is logged
LoopEnd ==
  /\ bpc = "loop"
  /\ idx > Len(tweets_data)
  /\ bpc' = "finally"
  /\ UNCHANGED <<max_tweets, tweets_data, idx, successful_posts, failed_posts,
                 logged_in, res, posted, ppc, nav, calls, post_result, won,
                 quit_calls, avars, mvars, gvars, pvars, dvars, cvars, evars>>

\* quit: the resources that are set are closed in the order page, context,
\* browser, playwright inside one try; the first close that raises ends it,
\* caught. quit(r, k): the resources after the first k closes went through
\* and, when k is not all of them, the next one raised: a resource whose
\* close raised is "failed" unless it had been closed before.
QuitOrder == <<"page", "context", "browser", "playwright">>
quit(r, k) ==
  [x \in DOMAIN r |->
     IF r[x] = "none" THEN "none"
     ELSE IF \E j \in 1..k : QuitOrder[j] = x THEN "closed"
     ELSE IF k < Len(QuitOrder) /\ QuitOrder[k + 1] = x /\ r[x] # "closed" THEN "failed"
     ELSE r[x]]

\* close number k + 1 can raise only on a resource that is set
QuitEnds(r, k) == IF k = Len(QuitOrder) THEN TRUE ELSE r[QuitOrder[k + 1]] # "none"

\* run_bot's finally: the wait, then quit; run_bot returns
Quit ==
  /\ bpc = "finally"
  /\ \E k \in 0..Len(QuitOrder) : QuitEnds(res, k) /\ res' = quit(res, k)
  /\ quit_calls' = quit_calls + 1
  /\ bpc' = "done"
  /\ UNCHANGED <<max_tweets, tweets_data, idx, successful_posts, failed_posts,
                 logged_in, posted, ppc, nav, calls, post_result, won,
                 avars, mvars, gvars, pvars, dvars, cvars, evars>>

\* main's finally: quit once more, on the attributes run_bot's quit left set
MainQuit ==
  /\ bpc = "done"
  /\ \E k \in 0..Len(QuitOrder) : QuitEnds(res, k) /\ res' = quit(res, k)
  /\ quit_calls' = quit_calls + 1
  /\ bpc' = "exited"
  /\ UNCHANGED <<max_tweets, tweets_data, idx, successful_posts, failed_posts,
                 logged_in, posted, ppc, nav, calls, post_result, won,
                 avars, mvars, gvars, pvars, dvars, cvars, evars>>

InitBot ==
  /\ bpc = "setup" /\ max_tweets \in MaxTweetsArgs /\ tweets_data = <<>> /\ idx = 0
  /\ successful_posts = 0 /\ failed_posts = 0 /\ logged_in = FALSE
  /\ res = NoResources /\ posted = <<>> /\ ppc = "idle" /\ nav = "none"
  /\ calls = <<>> /\ post_result = Ret(FALSE) /\ won = {} /\ quit_calls = 0
  /\ AnalyzeIdle /\ DiscoverIdle /\ CrawlIdle /\ ExtractIdle /\ MainIdle /\ AggregateIdle
  /\ PoolIdle

NextBot ==
  \/ SetupBrowser
  \/ LoadTweets
  \/ Login
  \/ Iterate
  \/ PostNavigate
  \/ \E m \in 1..NumMethods : PostTry(m)
  \/ AfterPost
  \/ LoopEnd
  \/ Quit
  \/ MainQuit

SpecBot == InitBot /\ [][NextBot]_vars

\* the fallback stages of both scripts: a run of the bot, or a call of
\* extract_single_article
InitFallback == InitBot \/ InitExtract
NextFallback == NextBot \/ CallExtract
SpecFallback == InitFallback /\ [][NextFallback]_vars

\* ----------------------------------------------------------------- claims
\* the articles of the report: those of the category lists and the flat list
ReportedIn(c) == Range(all_data.categories[c].articles)
Reported ==
  UNION {ReportedIn(c) : c \in DOMAIN all_data.categories}
    \cup Range(all_data.all_articles)

\* C1: no extraction that failed (its fetch raised, or its joined text was
\* shorter than 100 characters) has an article in a category's list or in
\* all_articles: every article of the report is one a worker returned.
C1_FailedNeverReported ==
  /\ \A c \in DOMAIN all_data.categories : \A a \in ReportedIn(c) :
       <<c, a.url>> \notin failed /\ <<c, a.url>> \in extracted
  /\ \A a \in Range(all_data.all_articles) :
       \E c \in DOMAIN all_data.categories :
         a \in ReportedIn(c) /\ <<c, a.url>> \notin failed

\* the crawl ended with a category that reports one URL and failed on another
C1_Witness ==
  /\ cpc = "done"
  /\ \E c \in DOMAIN all_data.categories : \E u \in Urls :
       /\ <<c, u>> \in failed
       /\ ReportedIn(c) # {}
       /\ all_data.all_articles # <<>>

\* C2: every article process_articles_parallel returns, and so every article
\* of the report, has a sentiment among positive, negative, neutral and an
\* urgency among high, medium, low.
GoodLabels(a) ==
  /\ "sentiment" \in DOMAIN a /\ "urgency" \in DOMAIN a
  /\ a.sentiment.t = "str" /\ a.sentiment.s \in Sentiments
  /\ a.urgency.t = "str" /\ a.urgency.s \in Urgencies
C2_LabelsInRange ==
  /\ \A a \in Range(processed_articles) : GoodLabels(a)
  /\ \A a \in Reported : GoodLabels(a)

\* C3: analyze_with_ollama_fast never raises, and when the chat call raises,
\* or neither the direct parse nor the parse of an embedded object succeeds,
\* it returns the fixed default object.
FailurePath(chat) ==
  \/ chat.exc
  \/ LET response_text == Strip(chat.text)
         m == re_search(response_text)
     IN /\ ~(startswith_brace(response_text) /\ ~json_loads(response_text).exc)
        /\ ~(m.found /\ ~json_loads(m.group).exc)
C3_NeverRaisesDefault ==
  apc = "returned" =>
    /\ ~analysis.exc
    /\ FailurePath(response) => analysis.val = DefaultAnalysis

\* a reply that opens with a brace, whose direct parse fails and whose
\* embedded match fails to parse too, was answered
C3_Witness ==
  /\ apc = "returned"
  /\ ~response.exc
  /\ startswith_brace(Strip(response.text))
  /\ re_search(Strip(response.text)).found
  /\ FailurePath(response)
  /\ analysis = Ret(DefaultAnalysis)

\* C9: every article whose extraction succeeded is in its category's list
\* and in all_articles once the crawl has ended, whatever the model service
\* returned for it.
C9_ExtractedIsReported ==
  cpc = "done" =>
    \A p \in extracted :
      /\ p[1] \in DOMAIN all_data.categories
      /\ \E a \in ReportedIn(p[1]) : a.url = p[2]
      /\ \E a \in Range(all_data.all_articles) : a.url = p[2]

\* C4: every text run_bot passes to post_tweet has at most 280 characters:
\* a source text of more than 280 is passed as its first 277 characters and
\* '...', 280 characters in all, and any other source text unchanged.
C4_PostedWithinLimit ==
  \A k \in 1..Len(posted) :
    LET source == TweetText(tweets_data[posted[k].i])
        text == posted[k].text
    IN /\ Len(text) <= 280
       /\ Len(source) > 280 =>
            /\ Len(text) = 280
            /\ \A j \in 1..277 : text[j] = source[j]
            /\ \A j \in 278..280 : text[j] = "."
       /\ Len(source) <= 280 => text = source

\* a text of 300 characters and one of 280 were passed to post_tweet
C4_Witness ==
  /\ \E k \in 1..Len(posted) : Len(TweetText(tweets_data[posted[k].i])) = 300
  /\ \E k \in 1..Len(posted) : Len(TweetText(tweets_data[posted[k].i])) = 280

\* C5: post_tweet invokes the compose methods in the order 1, 2, 3, a method
\* only after every earlier one returned failure, and a success makes it
\* return True at once with no later method invoked.
C5_FallbackOrder ==
  /\ \A j \in 1..Len(calls) : calls[j].method = j
  /\ \A j \in 1..(Len(calls) - 1) : ~calls[j].success
  /\ \A j \in 1..Len(calls) :
       calls[j].success =>
         /\ j = Len(calls)
         /\ ppc \in {"returned", "idle"}
         /\ post_result = Ret(TRUE)

\* method 1 failed, method 2 succeeded and post_tweet returned True
C5_Witness ==
  /\ ppc = "returned"
  /\ Len(calls) = 2
  /\ ~calls[1].success /\ calls[2].success
  /\ post_result = Ret(TRUE)

\* C6: post_tweet never raises: it returns False when the three compose
\* methods failed or when its navigation raised; and extract_single_article
\* returns None, without raising, when its fetch or parse raised.
C6_FallbackNeverRaises ==
  /\ ~post_result.exc
  /\ (ppc = "returned" /\ nav = "raise") => post_result = Ret(FALSE)
  /\ (ppc = "returned" /\ Len(calls) = NumMethods
        /\ \A j \in 1..Len(calls) : ~calls[j].success) => post_result = Ret(FALSE)
  /\ (extraction.called /\ extraction.fetch.exc) =>
       /\ ~extraction.outcome.exc
       /\ extraction.outcome.val.none

\* the navigation to the home page raised and post_tweet returned False
C6_Witness ==
  /\ ppc = "returned"
  /\ nav = "raise"
  /\ post_result = Ret(FALSE)

\* the positions of the entries of data that are dicts with a text, in order
RECURSIVE Eligible(_, _)
Eligible(data, i) ==
  IF i > Len(data) THEN <<>>
  ELSE (IF data[i].dict /\ TweetText(data[i]) # <<>> THEN <<i>> ELSE <<>>)
         \o Eligible(data, i + 1)

PostedPositions == [k \in 1..Len(posted) |-> posted[k].i]

\* C10: once login has succeeded, every entry of the limited list that has a
\* text gets exactly one post_tweet call, in list order, whatever became of
\* the entries before it.
C10_EveryEntryPosted ==
  /\ (logged_in /\ bpc \in {"finally", "done"}) =>
       PostedPositions = Eligible(tweets_data, 1)
  /\ \A j, k \in 1..Len(posted) : j < k => posted[j].i < posted[k].i

\* the run ended with two entries posted although no post succeeded
C10_Witness ==
  /\ logged_in /\ bpc = "done"
  /\ Len(posted) >= 2
  /\ successful_posts = 0

\* C7: the list discover_article_urls returns holds each URL its workers
\* surfaced exactly once, whatever the seeds and the order of completion.
C7_EachUrlOnce ==
  dpc = "returned" =>
    /\ \A i, j \in 1..Len(article_urls) :
         i # j => article_urls[i] # article_urls[j]
    /\ Range(article_urls) = Range(all_articles)

\* two seeds surfaced the same URL and the call returned
C7_Witness ==
  /\ dpc = "returned"
  /\ \E i, j \in DOMAIN seed_result :
       /\ i # j
       /\ Range(seed_result[i].returned) \cap Range(seed_result[j].returned) # {}

\* C8: a seed whose fetch fails contributes an empty list and the call goes
\* on: it returns, with every seed consumed, exactly the union of the
\* filtered, capped link lists of the seeds whose fetch succeeded.
C8_FailedSeedContained ==
  dpc = "returned" =>
    /\ pending = {}
    /\ DOMAIN seed_result = 1..Len(base_urls)
    /\ \A i \in DOMAIN seed_result :
         LET r == seed_result[i] IN
           /\ ~r.ok => r.returned = <<>>
           /\ r.ok =>
                /\ Range(r.returned) \subseteq r.valid
                /\ Cardinality(Range(r.returned)) = Len(r.returned)
                /\ Len(r.returned) =
                     IF Cardinality(r.valid) < max_per_category
                     THEN Cardinality(r.valid) ELSE max_per_category
    /\ Range(article_urls) =
         UNION {Range(seed_result[i].returned) :
                  i \in {k \in DOMAIN seed_result : seed_result[k].ok}}

\* one seed failed, another was capped, and the call returned its links
C8_Witness ==
  /\ dpc = "returned"
  /\ \E i, j \in DOMAIN seed_result :
       /\ ~seed_result[i].ok
       /\ seed_result[j].ok
       /\ Cardinality(seed_result[j].valid) > max_per_category
       /\ article_urls # <<>>

\* C11: a successful fallback attempt returns the index of the strategy that
\* succeeded: what post_tweet returns tells which compose method won, so two
\* calls that return the same value were won by the same method; and an
\* extracted article carries the index of the selector strategy that
\* produced it.
C11_ResultNamesStrategy ==
  /\ \A p, q \in won : p.value = q.value => p.method = q.method
  /\ (extraction.called /\ ~extraction.outcome.exc /\ ~extraction.outcome.val.none) =>
       "strategy_index" \in DOMAIN extraction.outcome.val

\* C12: a failed write of the report file is an overall failure of the run:
\* save_data returns False without raising, and the script does not then
\* print that crawling completed successfully or that the file was saved.
C12_SaveFailureIsFailure ==
  /\ ~save_result.exc
  /\ (save_result.called /\ ~save_result.val) =>
       announced \cap {"completed_successfully", "file_saved"} = {}

\* C13: the aggregation is a function of the set of enriched articles: run
\* on the same articles in two orders of completion, it gives the same
\* per-category avg_word_count, sentiment_distribution and top_topics and
\* the same summary, all_topics included.
C13_SameStatistics ==
  gpc = "returned" =>
    /\ agg_out[1].category.exc = agg_out[2].category.exc
    /\ ~agg_out[1].category.exc =>
         agg_out[1].category.val.statistics = agg_out[2].category.val.statistics
    /\ agg_out[1].summary = agg_out[2].summary

\* the places where topic t stands: the article and the position in its list
Places(enriched, t) ==
  UNION {{<<k, j>> : j \in {i \in 1..Len(enriched[k].topics.l) :
                               enriched[k].topics.l[i] = t}} :
           k \in 1..Len(enriched)}
Before(p, q) == p[1] < q[1] \/ (p[1] = q[1] /\ p[2] < q[2])
FirstPlace(enriched, t) ==
  CHOOSE p \in Places(enriched, t) : \A q \in Places(enriched, t) : p = q \/ Before(p, q)
TopicsOf(enriched) ==
  UNION {Range(enriched[k].topics.l) : k \in 1..Len(enriched)}

\* C14: extract_top_topics returns at most 10 (topic, count) pairs; each
\* count is the number of occurrences of the topic over all the articles'
\* topic lists; the counts do not increase along the list; of two topics
\* with the same count the one first seen comes first; and no topic left out
\* has a higher count than one that is in the list.
C14_TopTopics ==
  (gpc = "returned" /\ Len(agg_out) = 1 /\ ~agg_out[1].exc) =>
    LET enriched == agg_in[1]
        top == agg_out[1].val
        included == {top[i][1] : i \in 1..Len(top)}
    IN /\ Len(top) <= 10
       /\ \A i \in 1..Len(top) :
            top[i][2] = Cardinality(Places(enriched, top[i][1]))
       /\ \A i, j \in 1..Len(top) : i < j =>
            /\ top[i][2] >= top[j][2]
            /\ top[i][1] # top[j][1]
            /\ top[i][2] = top[j][2] =>
                 Before(FirstPlace(enriched, top[i][1]), FirstPlace(enriched, top[j][1]))
       /\ \A t \in TopicsOf(enriched) \ included : \A i \in 1..Len(top) :
            Cardinality(Places(enriched, t)) <= top[i][2]

\* a list of ten was returned in which a topic seen late stands before
\* topics seen earlier, with topics left out
C14_Witness ==
  /\ gpc = "returned" /\ Len(agg_out) = 1 /\ ~agg_out[1].exc
  /\ Len(agg_out[1].val) = 10
  /\ Cardinality(TopicsOf(agg_in[1])) > 10
  /\ \E i, j \in 1..10 :
       /\ i < j
       /\ agg_out[1].val[i][2] > agg_out[1].val[j][2]
       /\ Before(FirstPlace(agg_in[1], agg_out[1].val[j][1]),
                 FirstPlace(agg_in[1], agg_out[1].val[i][1]))
  /\ \E i \in 1..9 : agg_out[1].val[i][2] = agg_out[1].val[i + 1][2]

\* C15: with max_tweets = n, a number, at most n entries of the tweet file,
\* its first n, are passed to post_tweet; only with max_tweets = None is
\* every entry eligible.
C15_AtMostMaxTweets ==
  ~max_tweets.none =>
    /\ Len(posted) <= max_tweets.n
    /\ \A k \in 1..Len(posted) : posted[k].i <= max_tweets.n

\* C16: every run of run_bot ends through quit, whatever its exit path, and
\* once the script has ended every resource that was opened (page, context,
\* browser, playwright) has been closed, also when a close raised: none is
\* left open without a close of it having been tried.
C16_QuitClosesAll ==
  /\ bpc \in {"done", "exited"} => quit_calls >= 1
  /\ bpc = "exited" => \A r \in DOMAIN res : res[r] # "open"

UrlsIn(c) == {a.url : a \in ReportedIn(c)}

\* C17: deduplication covers all seeds of the crawl: once crawl_all_content
\* has ended, all_articles holds at most one article per URL and no URL is
\* reported under two categories.
C17_OneArticlePerUrl ==
  cpc = "done" =>
    /\ \A i, j \in 1..Len(all_data.all_articles) :
         i # j => all_data.all_articles[i].url # all_data.all_articles[j].url
    /\ \A c, d \in DOMAIN all_data.categories :
         c # d => UrlsIn(c) \cap UrlsIn(d) = {}

\* C18: the report groups the articles by their own category: every article
\* in the list of category c has c as its 'category'.
C18_GroupedByOwnCategory ==
  \A c \in DOMAIN all_data.categories : \A a \in ReportedIn(c) : a.category = c

\* The state of the target (c, u), the URL u discovered for category c, as
\* the crawl's data shows it.
Current(c) == cat <= Len(Categories) /\ Categories[cat] = c
TargetState(c, u) ==
  IF c \in DOMAIN all_data.categories /\ u \in UrlsIn(c) THEN "Reported"
  ELSE IF <<c, u>> \in failed THEN "Failed"
  ELSE IF <<c, u>> \in extracted THEN
    IF Current(c) /\ cpc = "extract" THEN "Succeeded"
    ELSE IF Current(c) /\ \E k \in en_pending : articles[k].url = u THEN "Enriching"
    ELSE "Enriched"
  ELSE IF Current(c) /\ u \in ex_pending THEN "Extracting"
  ELSE IF Current(c) /\ dpc = "returned" /\ u \in Range(article_urls) THEN "Discovered"
  ELSE "Unknown"

TargetSteps ==
  {<<"Unknown", "Discovered">>, <<"Discovered", "Extracting">>,
   <<"Extracting", "Succeeded">>, <<"Extracting", "Failed">>,
   <<"Succeeded", "Enriching">>, <<"Enriching", "Enriched">>,
   <<"Enriched", "Reported">>}

EnrichmentKeys == {"ai_analysis", "summary", "topics", "sentiment", "urgency"}

\* what is handed to enrichment was extracted, with a payload, and did not
\* fail; what enrichment returned and what is reported carries the keys
\* enrichment sets
TargetData ==
  /\ \A k \in 1..Len(articles) :
       /\ <<Category, articles[k].url>> \in extracted \ failed
       /\ articles[k].content.len > 0
       /\ articles[k].content.parts # <<>>
  /\ \A a \in Range(processed_articles) :
       /\ EnrichmentKeys \subseteq DOMAIN a
       /\ <<Category, a.url>> \in extracted \ failed
  /\ \A c \in DOMAIN all_data.categories : \A a \in ReportedIn(c) :
       /\ EnrichmentKeys \subseteq DOMAIN a
       /\ <<c, a.url>> \in extracted \ failed
  /\ \A a \in Range(all_data.all_articles) : EnrichmentKeys \subseteq DOMAIN a

\* C19: every target moves through Discovered, Extracting, Succeeded or
\* Failed, Enriching, Enriched, Reported in that order, one state at a time:
\* it is handed to enrichment only after its extraction succeeded with a
\* payload, it is reported only after enrichment returned it with
\* ai_analysis, summary, topics, sentiment and urgency, and a Failed target
\* stays Failed.
C19_TargetLifecycle ==
  /\ []TargetData
  /\ [][\A c \in Range(Categories) : \A u \in Urls :
          \/ TargetState(c, u)' = TargetState(c, u)
          \/ <<TargetState(c, u), TargetState(c, u)'>> \in TargetSteps]_vars

\* the crawl ended with a category in which one target is Reported and
\* another Failed
C19_Witness ==
  /\ cpc = "done"
  /\ \E c \in Range(Categories) : \E u, v \in Urls :
       TargetState(c, u) = "Reported" /\ TargetState(c, v) = "Failed"


\* C20: in the three pools no two workers write the same object and no
\* worker writes the result list: only the thread that runs the pool does.
\* Whatever the interleaving, the result list holds, for each task whose
\* future was yielded with a result, that result once: each link its worker
\* returned, its article when it has one; nothing else and nothing twice.
Successful(k) ==
  /\ k \in DOMAIN future
  /\ ~future[k].exc
  /\ pool = "extract" => ~future[k].val.none
Items(k) == IF pool = "discover" THEN future[k].val ELSE <<future[k].val>>
Slots == UNION {{<<k, i>> : i \in DOMAIN Items(k)} : k \in {j \in yielded : Successful(j)}}
Owed(x) == Cardinality({s \in Slots : Items(s[1])[s[2]] = x})
Occurrences(list, x) == Cardinality({i \in DOMAIN list : list[i] = x})
C20_PoolsMergeOnce ==
  /\ \A v, w \in writes : v.by # 0 /\ w.by # 0 /\ v.obj = w.obj => v.by = w.by
  /\ \A w \in writes : w.obj = 0 => w.by = 0
  /\ \A x \in Range(Container) \cup {Items(s[1])[s[2]] : s \in Slots} :
       Occurrences(Container, x) = Owed(x)
  /\ pool_pc = "returned" => yielded = DOMAIN worker
C20_Witness ==
  /\ pool = "process"
  /\ pool_pc = "returned"
  /\ Len(processed_articles) = 2
  /\ processed_articles[1] = future[2].val
  /\ {[by |-> 1, obj |-> 1], [by |-> 2, obj |-> 2]} \subseteq writes


\* C21: in an article extract_single_article returned, the title is the text
\* of the first title selector that matches ('No title found' when that text
\* is empty or no selector matches), and the paragraphs of the content were
\* all matched by one content selector: the first, in list order, that
\* matches a paragraph the content holds.
MatchedBy(page, k) == {page.paras[k][i].id : i \in 1..Len(page.paras[k])}
TitleOfFirstMatch(page, title) ==
  LET matching == {k \in 1..NumTitleSelectors : page.titles[k].found}
  IN IF matching = {} THEN title = "No title found"
     ELSE LET first == CHOOSE k \in matching : \A j \in matching : k <= j
          IN title = IF page.titles[first].text # "" THEN page.titles[first].text
                     ELSE "No title found"
ContentOfOneSelector(page, parts) ==
  parts # <<>> =>
    LET giving == {k \in 1..NumContentSelectors : MatchedBy(page, k) \cap Range(parts) # {}}
        first == CHOOSE k \in giving : \A j \in giving : k <= j
    IN Range(parts) \subseteq MatchedBy(page, first)
C21_FirstStrategyWins ==
  (epc = "returned" /\ ~extraction.outcome.exc /\ ~extraction.outcome.val.none) =>
    /\ TitleOfFirstMatch(extraction.fetch.page, extraction.outcome.val.title)
    /\ ContentOfOneSelector(extraction.fetch.page, extraction.outcome.val.content.parts)


\* C22: over the compose methods and post-button selectors of one call of
\* post_tweet at most one submit action returns (a click of a post button,
\* forced or not, or the press of Control+Enter), and the call returns True
\* exactly when one did.
RECURSIVE SumSubmits(_)
SumSubmits(cs) == IF cs = <<>> THEN 0 ELSE Head(cs).submits + SumSubmits(Tail(cs))
C22_AtMostOneSubmit ==
  /\ SumSubmits(calls) <= 1
  /\ ppc = "returned" => (post_result = Ret(TRUE) <=> SumSubmits(calls) = 1)

\* a call returned True after the third method's press, the first two
\* methods having submitted nothing
C22_Witness ==
  /\ ppc = "returned"
  /\ post_result = Ret(TRUE)
  /\ Len(calls) = NumMethods
  /\ calls[1].submits = 0 /\ calls[2].submits = 0 /\ calls[3].submits = 1

====
